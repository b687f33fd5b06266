------------------------------ MODULE Upload ------------------------------
(***************************************************************************)
(* POST of a resource: FileUploadCallback and TempFileUploadCallback of     *)
(* transfer.cpp, run by the HTTP server's worker threads at the same time.  *)
(*                                                                         *)
(* A handler refuses a name whose data file exists, receives the body piece *)
(* by piece into <name>.tmp and <name>.metadata (one open/write/close per   *)
(* piece), compares the md5 of <name>.tmp with the file name and renames it *)
(* to the data file.  The body may end early, when the connection is lost:  *)
(* the handlers ignore what content_reader returns and go on to the md5     *)
(* check.  The process may die at any point and start again on the files it *)
(* left behind.                                                             *)
(***************************************************************************)
EXTENDS FrsStorage, Integers

CONSTANTS
    Uploaders,   \* worker threads that serve uploads
    Requests,    \* uploads clients may send
    MaxUploads   \* bound on the number of uploads begun

(* Content type of a part of a multipart body, or of a whole plain body. *)
PartKinds == {"octet", "json", "other"}
Part == [kind : PartKinds, data : Contents]

(* A plain (not multipart) request has one part, its body. *)
UploadRequest == [name : Names, multipart : BOOLEAN, parts : Seq(Part)]

ASSUME UploadAssumption ==
    /\ Uploaders \subseteq Slots
    /\ Requests \subseteq UploadRequest
    /\ Requests # {}
    /\ \A r \in Requests : ~r.multipart => Len(r.parts) = 1
    /\ MaxUploads \in Nat

VARIABLES
    upc,        \* where in the handler each uploader is
    ureq,       \* the request it serves (or served last)
    uparts,     \* what of the body is still to come
    upiece,     \* the piece its open file is about to receive
    uresp,      \* the status and code it answered last
    begun,      \* uploads begun so far, at most MaxUploads
    raced,      \* history: names two uploads of which were ever open at once
    ufresh,     \* history: the upload found no .tmp when it began
    ulost       \* history: its first boundary was missed and parts were lost

uploadVars == <<upc, ureq, uparts, upiece, uresp, begun, raced, ufresh, ulost>>
uvars == <<fs, fd, dirs, upc, ureq, uparts, upiece, uresp, begun, raced, ufresh, ulost>>

Unanswered == [status |-> 0, code |-> 0]
Reply(status, code) == [status |-> status, code |-> code]
Replies == {Unanswered, Reply(200, 0), Reply(400, -2), Reply(400, -5)}

UploadPc == {"idle", "body", "append", "overwrite", "md5", "rename"}

UploadTypeOK ==
    /\ StorageTypeOK
    /\ upc \in [Uploaders -> UploadPc]
    /\ ureq \in [Uploaders -> Requests]
    /\ uparts \in [Uploaders -> Seq(Part)]
    /\ upiece \in [Uploaders -> Contents]
    /\ uresp \in [Uploaders -> Replies]
    /\ begun \in Nat
    /\ raced \in SUBSET Names
    /\ ufresh \in [Uploaders -> BOOLEAN] /\ ulost \in [Uploaders -> BOOLEAN]

NameOf(u) == ureq[u].name
Active(u) == upc[u] # "idle"

UploadInit ==
    /\ StorageInit
    /\ upc = [u \in Uploaders |-> "idle"]
    /\ ureq = [u \in Uploaders |-> CHOOSE r \in Requests : TRUE]
    /\ uparts = [u \in Uploaders |-> <<>>]
    /\ upiece = [u \in Uploaders |-> <<>>]
    /\ uresp = [u \in Uploaders |-> Unanswered]
    /\ begun = 0
    /\ raced = {}
    /\ ufresh = [u \in Uploaders |-> FALSE] /\ ulost = [u \in Uploaders |-> FALSE]

---------------------------------------------------------------------------
(* The handler up to the first read of the body. *)

(* Mutant: the documented status 401 instead of the code's 400. *)
RefuseExisting_Status401(u, r) ==
    /\ file_exists(File(r.name))
    /\ uresp' = [uresp EXCEPT ![u] = Reply(401, -2)]
    /\ UNCHANGED <<upc, ureq, uparts, upiece, raced, ufresh, ulost>>

(* An existing data file is not replaced: 400/-2 and the body is not read. *)
RefuseExisting(u, r) ==
    /\ file_exists(File(r.name))
    /\ uresp' = [uresp EXCEPT ![u] = Reply(400, -2)]
    /\ UNCHANGED <<upc, ureq, uparts, upiece, raced, ufresh, ulost>>

(* Mutant: a name whose data file exists is uploaded once more. *)
AcceptBody_Existing(u, r) ==
    /\ upc' = [upc EXCEPT ![u] = "body"]
    /\ ureq' = [ureq EXCEPT ![u] = r]
    /\ uparts' = [uparts EXCEPT ![u] = r.parts]
    /\ uresp' = [uresp EXCEPT ![u] = Unanswered]
    /\ raced' = IF \E v \in Uploaders : Active(v) /\ NameOf(v) = r.name
                THEN raced \cup {r.name} ELSE raced
    /\ ufresh' = [ufresh EXCEPT ![u] = ~file_exists(Tmp(r.name))]
    /\ ulost' = [ulost EXCEPT ![u] = FALSE]
    /\ UNCHANGED upiece

AcceptBody(u, r) ==
    /\ ~file_exists(File(r.name))
    /\ upc' = [upc EXCEPT ![u] = "body"]
    /\ ureq' = [ureq EXCEPT ![u] = r]
    /\ uparts' = [uparts EXCEPT ![u] = r.parts]
    /\ uresp' = [uresp EXCEPT ![u] = Unanswered]
    /\ raced' = IF \E v \in Uploaders : Active(v) /\ NameOf(v) = r.name
                THEN raced \cup {r.name} ELSE raced
    /\ ufresh' = [ufresh EXCEPT ![u] = ~file_exists(Tmp(r.name))]
    /\ ulost' = [ulost EXCEPT ![u] = FALSE]
    /\ UNCHANGED upiece

UploadBegin(u, r) ==
    /\ upc[u] = "idle"
    /\ begun < MaxUploads
    /\ begun' = begun + 1
    /\ MakeDir(DirOf[r.name])
    /\ RefuseExisting(u, r) \/ AcceptBody(u, r)
    /\ UNCHANGED <<fs, fd>>

FileUploadCallback(u) ==
    \E r \in Requests : r.name \notin TempNames /\ UploadBegin(u, r)

(* The same code over CACHE_DIR "temp/". *)
TempFileUploadCallback(u) ==
    \E r \in Requests : r.name \in TempNames /\ UploadBegin(u, r)

---------------------------------------------------------------------------
(* The receivers given to content_reader. *)

Current(u) == Head(uparts[u])

(* The body after the first k units of the current part were delivered. *)
AfterPiece(u, k) ==
    IF k = Len(Current(u).data) THEN Tail(uparts[u])
    ELSE <<[Current(u) EXCEPT !.data = SubSeq(@, k + 1, Len(@))]>> \o Tail(uparts[u])

(* A part arrives in pieces of any length, none of them empty; an empty     *)
(* part of a multipart body is still delivered once, an empty plain body    *)
(* never.                                                                   *)
PieceLengths(u) ==
    IF Current(u).data = <<>> THEN (IF ureq[u].multipart THEN {0} ELSE {})
    ELSE 1 .. Len(Current(u).data)

Receiving(u) == upc[u] = "body" /\ uparts[u] # <<>>

(* A multipart part of type octet-stream is appended to .tmp; a plain body  *)
(* replaces .tmp piece by piece, and JSON replaces .metadata piece by piece. *)
Appends(u) == Current(u).kind = "octet" /\ ureq[u].multipart

(* The multipart parser recognises the boundary before the first part only  *)
(* when one read delivers all of it.  A boundary cut by a read is dropped   *)
(* and the parser looks for the next one, which may be cut as well: any     *)
(* number of parts is lost before the receiver is called, and no error      *)
(* tells.                                                                   *)
MissBoundary(u) ==
    /\ Receiving(u) /\ ureq[u].multipart
    /\ uparts[u] = ureq[u].parts
    /\ \E k \in 1 .. Len(uparts[u]) :
          uparts' = [uparts EXCEPT ![u] = SubSeq(@, k + 1, Len(@))]
    /\ ulost' = [ulost EXCEPT ![u] = TRUE]
    /\ UNCHANGED <<fs, fd, dirs, upc, ureq, upiece, uresp, begun, raced, ufresh>>

(* Mutant: the multipart receiver truncates like the plain one. *)
OpenTarget_Truncates(u) ==
    \/ Current(u).kind = "octet" /\ OpenTrunc(u, Tmp(NameOf(u)))
    \/ Current(u).kind = "json" /\ OpenTrunc(u, Meta(NameOf(u)))

(* Mutant: the body is received into the data file itself. *)
OpenTarget_InPlace(u) ==
    \/ Appends(u) /\ OpenAppend(u, File(NameOf(u)))
    \/ ~Appends(u) /\ Current(u).kind = "octet" /\ OpenTrunc(u, File(NameOf(u)))
    \/ Current(u).kind = "json" /\ OpenTrunc(u, Meta(NameOf(u)))

OpenTarget(u) ==
    \/ Appends(u) /\ OpenAppend(u, Tmp(NameOf(u)))
    \/ ~Appends(u) /\ Current(u).kind = "octet" /\ OpenTrunc(u, Tmp(NameOf(u)))
    \/ Current(u).kind = "json" /\ OpenTrunc(u, Meta(NameOf(u)))

(* What the helper writes.  A plain JSON body is passed on as a C string    *)
(* that nothing terminates: what follows the piece in the receive buffer    *)
(* may be written too.                                                      *)
Written(u, d) ==
    IF Current(u).kind = "json" /\ ~ureq[u].multipart
    THEN {d, Append(d, Junk)} ELSE {d}

OpenPiece(u) ==
    /\ Receiving(u)
    /\ Current(u).kind # "other"
    /\ OpenTarget(u)
    /\ \E k \in PieceLengths(u) :
          /\ \E d \in Written(u, SubSeq(Current(u).data, 1, k)) :
                upiece' = [upiece EXCEPT ![u] = d]
          /\ uparts' = [uparts EXCEPT ![u] = AfterPiece(u, k)]
    /\ upc' = [upc EXCEPT ![u] = IF Appends(u) THEN "append" ELSE "overwrite"]
    /\ UNCHANGED <<dirs, ureq, uresp, begun, raced, ufresh, ulost>>

ClosePiece(u) ==
    /\ CloseFd(u)
    /\ upc' = [upc EXCEPT ![u] = "body"]
    /\ upiece' = [upiece EXCEPT ![u] = <<>>]
    /\ UNCHANGED <<dirs, ureq, uparts, uresp, begun, raced, ufresh, ulost>>

(* fwrite and fclose of append_to_file2: O_APPEND writes at the end. *)
AppendPiece(u) ==
    /\ upc[u] = "append"
    /\ WriteFd(u, LAMBDA c : c \o upiece[u])
    /\ ClosePiece(u)

(* Those of write_to_binary_file and write_to_file: from offset 0. *)
OverwritePiece(u) ==
    /\ upc[u] = "overwrite"
    /\ WriteFd(u, LAMBDA c : WriteAt(c, 0, upiece[u]))
    /\ ClosePiece(u)

(* The receivers pass over parts of any other type, and httplib over an     *)
(* empty plain body.                                                        *)
SkipPart(u) ==
    /\ Receiving(u)
    /\ Current(u).kind = "other" \/ PieceLengths(u) = {}
    /\ uparts' = [uparts EXCEPT ![u] = Tail(@)]
    /\ UNCHANGED <<fs, fd, dirs, upc, ureq, upiece, uresp, begun, raced, ufresh, ulost>>

(* content_reader returns: the body is complete, or the connection is lost. *)
EndBody(u) ==
    /\ upc[u] = "body"
    /\ upc' = [upc EXCEPT ![u] = "md5"]
    /\ UNCHANGED <<fs, fd, dirs, ureq, uparts, upiece, uresp, begun, raced, ufresh, ulost>>

---------------------------------------------------------------------------
(* After the body. *)

(* Mutant: the md5 check is dropped, any existing .tmp is taken. *)
CheckMd5_AnyContent(u) ==
    /\ upc[u] = "md5"
    /\ file_exists(Tmp(NameOf(u)))
    /\ upc' = [upc EXCEPT ![u] = "rename"]
    /\ UNCHANGED <<fs, fd, dirs, ureq, uparts, upiece, uresp, begun, raced, ufresh, ulost>>

(* A mismatch answers 400/-5 and leaves .tmp where it is. *)
CheckMd5(u) ==
    /\ upc[u] = "md5"
    /\ \/ /\ md5_is(Tmp(NameOf(u)), NameOf(u))
          /\ upc' = [upc EXCEPT ![u] = "rename"]
          /\ UNCHANGED uresp
       \/ /\ ~md5_is(Tmp(NameOf(u)), NameOf(u))
          /\ upc' = [upc EXCEPT ![u] = "idle"]
          /\ uresp' = [uresp EXCEPT ![u] = Reply(400, -5)]
    /\ UNCHANGED <<fs, fd, dirs, ureq, uparts, upiece, begun, raced, ufresh, ulost>>

(* Mutant: an existing data file is removed before the rename. *)
RenameAndReply_RemoveFirst(u) ==
    /\ upc[u] = "rename"
    /\ fs' = [fs EXCEPT ![File(NameOf(u))] = fs[Tmp(NameOf(u))],
                        ![Tmp(NameOf(u))] = NoFile]
    /\ fd' = Moved(Tmp(NameOf(u)), File(NameOf(u)))
    /\ upc' = [upc EXCEPT ![u] = "idle"]
    /\ uresp' = [uresp EXCEPT ![u] = Reply(200, 0)]
    /\ UNCHANGED <<dirs, ureq, uparts, upiece, begun, raced, ufresh, ulost>>

(* The result of the rename is ignored: the answer is 200/0. *)
RenameAndReply(u) ==
    /\ upc[u] = "rename"
    /\ file_rename(Tmp(NameOf(u)), File(NameOf(u)))
    /\ upc' = [upc EXCEPT ![u] = "idle"]
    /\ uresp' = [uresp EXCEPT ![u] = Reply(200, 0)]
    /\ UNCHANGED <<dirs, ureq, uparts, upiece, begun, raced, ufresh, ulost>>

(* The process dies: every handler is forgotten, its client unanswered. *)
UploadReset ==
    /\ upc' = [u \in Uploaders |-> "idle"]
    /\ uresp' = [u \in Uploaders |-> Unanswered]
    /\ uparts' = [u \in Uploaders |-> <<>>]
    /\ upiece' = [u \in Uploaders |-> <<>>]
    /\ ufresh' = [u \in Uploaders |-> FALSE] /\ ulost' = [u \in Uploaders |-> FALSE]
    /\ UNCHANGED <<ureq, begun, raced>>

(* ... and starts again on the cache directory it left. *)
Restart ==
    /\ \E u \in Uploaders : Active(u)
    /\ UploadReset
    /\ CloseAll
    /\ UNCHANGED <<fs, dirs>>

---------------------------------------------------------------------------
Handle(u) ==
    \/ MissBoundary(u) \/ OpenPiece(u) \/ AppendPiece(u) \/ OverwritePiece(u)
    \/ SkipPart(u) \/ EndBody(u) \/ CheckMd5(u) \/ RenameAndReply(u)

UploadNext ==
    \/ \E u \in Uploaders :
          FileUploadCallback(u) \/ TempFileUploadCallback(u) \/ Handle(u)
    \/ Restart

UploadSpec == UploadInit /\ [][UploadNext]_uvars
---------------------------------------------------------------------------
(* Properties *)

(* Integrity: whatever was received, lost or left behind by a crash, the    *)
(* data file of a name whose uploads never overlapped holds exactly the     *)
(* content its md5 name promises (the md5 check and rename at the end of    *)
(* FileUploadCallback).                                                     *)
FileIntegrity ==
    \A n \in Names \ raced : fs[File(n)] \in {NoFile, Body[n]}

(* An upload answered 200 has left a data file, also when another upload of *)
(* the same name renamed .tmp between its md5 check and its rename, whose   *)
(* result the handler ignores.                                              *)
AckedUploadIsStored ==
    \A u \in Uploaders : uresp[u] = Reply(200, 0) => file_exists(File(NameOf(u)))

(* The one octet-stream part of request r is the content its name promises. *)
WellFormed(r) ==
    /\ r.multipart
    /\ \E i \in DOMAIN r.parts :
          /\ r.parts[i].kind = "octet" /\ r.parts[i].data = Body[r.name]
          /\ \A j \in DOMAIN r.parts \ {i} : r.parts[j].kind # "octet"

(* The body of u came to its end, alone of its name: u is about to judge it. *)
Received(u) == upc[u] = "md5" /\ uparts[u] = <<>> /\ NameOf(u) \notin raced

(* A multipart upload of the right content passes the md5 check, wherever   *)
(* reads cut its parts, when it was received to the end, met no other       *)
(* upload of its name, found no .tmp of an earlier one and no read cut the  *)
(* boundary before its first part (the parser would lose parts then).       *)
WellFormedAccepted ==
    \A u \in Uploaders :
        Received(u) /\ ufresh[u] /\ ~ulost[u] /\ WellFormed(ureq[u])
            => md5_is(Tmp(NameOf(u)), NameOf(u))

(* Each 200 is the answer to a commit of its own: in the step that gives it *)
(* to an upload that met no other of its name, the data file, absent until  *)
(* then although the existence check was made before the first read of the  *)
(* body, appears with the content of its name.  No upload is told 200 for   *)
(* what another one stored, or for nothing.                                 *)
AckCommits ==
    [][\A u \in Uploaders :
          uresp[u] # Reply(200, 0) /\ uresp'[u] = Reply(200, 0) /\ NameOf(u) \notin raced
              => fs[File(NameOf(u))] = NoFile /\ fs'[File(NameOf(u))] = Body[NameOf(u)]]_uvars

(* The promise made to clients, kept by the files under every interleaving, *)
(* lost connection and crash: the data file appears in one step, by the     *)
(* rename, with the right content, and never changes.                       *)
StoreView == [n \in Names |-> IF n \in raced THEN NoFile ELSE fs[File(n)]]
Store == INSTANCE WriteOnceStore WITH store <- StoreView, void <- raced

ImplementsStore == Store!Spec

(* Why integrity holds: the inductive invariant behind it. *)

(* Two uploads of a name at once have been noticed. *)
OverlapIsRaced ==
    \A u, v \in Uploaders :
        u # v /\ Active(u) /\ Active(v) /\ NameOf(u) = NameOf(v)
            => NameOf(u) \in raced

(* Only a handler in the middle of a helper holds a file open, one of its   *)
(* own name; it is the data file only if another upload renamed it there.   *)
OpenFileOfOwnName ==
    \A s \in Slots :
        fd[s] # NoFd =>
            /\ s \in Uploaders /\ upc[s] \in {"append", "overwrite"}
            /\ fd[s] \in {Tmp(NameOf(s)), Meta(NameOf(s)), File(NameOf(s))}
            /\ fd[s] = File(NameOf(s)) => NameOf(s) \in raced
            /\ fs[fd[s]] # NoFile

(* The existence check at the start of the handler stays true to its end,   *)
(* and what passed the md5 check is what the rename will commit.            *)
CheckedStaysTrue ==
    \A u \in Uploaders : Active(u) /\ NameOf(u) \notin raced =>
        /\ fs[File(NameOf(u))] = NoFile
        /\ upc[u] = "rename" => fs[Tmp(NameOf(u))] = Body[NameOf(u)]

(* A handler about to rename still has something to show for its 200. *)
RenameIsBacked ==
    \A u \in Uploaders :
        upc[u] = "rename" => file_exists(Tmp(NameOf(u))) \/ file_exists(File(NameOf(u)))

UploadInv ==
    /\ UploadTypeOK
    /\ OverlapIsRaced
    /\ OpenFileOfOwnName
    /\ CheckedStaysTrue
    /\ RenameIsBacked
    /\ FileIntegrity
    /\ AckedUploadIsStored
---------------------------------------------------------------------------
(* What the interface document says and the code does not do. *)

(* FRS-interface document: the md5 of the uploaded file is compared with    *)
(* the file name and the file is stored if they agree - so what is stored   *)
(* has the md5 of its name, also under concurrent uploads (transfer.cpp     *)
(* shares one .tmp between them).                                           *)
StoredMatchesName == \A n \in Names : fs[File(n)] \in {NoFile, Body[n]}

(* The same document: an upload whose content has the md5 of its name is    *)
(* stored.  A .tmp left by an earlier upload (transfer.cpp appends to it)   *)
(* must not matter.                                                         *)
RetryAccepted ==
    \A u \in Uploaders :
        Received(u) /\ ~ulost[u] /\ WellFormed(ureq[u])
            => md5_is(Tmp(NameOf(u)), NameOf(u))
===========================================================================
