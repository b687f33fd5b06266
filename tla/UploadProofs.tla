--------------------------- MODULE UploadProofs ---------------------------
(***************************************************************************)
(* Proofs about Upload, for any set of names, workers and requests, any     *)
(* contents and any number of uploads.                                      *)
(***************************************************************************)
EXTENDS Upload, TLAPS

(* The three paths of a name are distinct, and no two names share one. *)
LEMMA PathFacts ==
    /\ \A n \in Names : File(n) \in Paths /\ Tmp(n) \in Paths /\ Meta(n) \in Paths
    /\ \A m, n \in Names :
          /\ File(m) # Tmp(n) /\ File(m) # Meta(n) /\ Tmp(m) # Meta(n)
          /\ File(m) = File(n) => m = n
          /\ Tmp(m) = Tmp(n) => m = n
          /\ Meta(m) = Meta(n) => m = n
BY DEF File, Tmp, Meta, Paths, Kinds

(* A write at any offset leaves a content (fileUtils.cpp write helpers). *)
LEMMA WriteAtType ==
    ASSUME NEW c \in Contents, NEW d \in Contents, NEW off \in Nat
    PROVE  WriteAt(c, off, d) \in Contents
<1> DEFINE top == Larger(Len(c), off + Len(d))
<1>1. top \in Nat /\ Len(c) \in Nat /\ Len(d) \in Nat
  BY DEF Larger, Contents
<1>2. \A i \in 1 .. top :
        (IF i > off /\ i <= off + Len(d) THEN d[i - off]
         ELSE IF i <= Len(c) THEN c[i] ELSE Junk) \in Units
  BY <1>1, StorageAssumption DEF Contents
<1> QED
  BY <1>1, <1>2 DEF WriteAt, Contents

(* What is left of a body after a piece of its first part is a body. *)
LEMMA AfterPieceType ==
    ASSUME UploadTypeOK, NEW u \in Uploaders, uparts[u] # <<>>,
           NEW k \in PieceLengths(u)
    PROVE  /\ AfterPiece(u, k) \in Seq(Part)
           /\ SubSeq(Current(u).data, 1, k) \in Contents
<1>1. uparts[u] \in Seq(Part) /\ Current(u) \in Part /\ Tail(uparts[u]) \in Seq(Part)
  BY DEF UploadTypeOK, Current
<1>2. Current(u).data \in Contents /\ Current(u).kind \in PartKinds
  BY <1>1 DEF Part
<1>3. k \in 0 .. Len(Current(u).data)
  BY <1>2 DEF PieceLengths, Contents
<1>4. SubSeq(Current(u).data, 1, k) \in Contents
  BY <1>2, <1>3 DEF Contents
<1>5. SubSeq(Current(u).data, k + 1, Len(Current(u).data)) \in Contents
  BY <1>2, <1>3 DEF Contents
<1>6. [Current(u) EXCEPT !.data = SubSeq(@, k + 1, Len(@))] \in Part
  BY <1>1, <1>5 DEF Part
<1>7. AfterPiece(u, k) \in Seq(Part)
  BY <1>1, <1>6 DEF AfterPiece
<1> QED BY <1>4, <1>7

(* What a helper writes is a content, the bytes past a plain body included. *)
LEMMA WrittenType ==
    ASSUME NEW u, NEW c \in Contents, NEW d \in Written(u, c)
    PROVE  d \in Contents
<1>1. Append(c, Junk) \in Contents
  BY StorageAssumption DEF Contents
<1> QED BY <1>1 DEF Written

---------------------------------------------------------------------------
(* Types *)

LEMMA TypeInit == UploadInit => UploadTypeOK
<1> SUFFICES ASSUME UploadInit PROVE UploadTypeOK
  OBVIOUS
<1>1. StorageTypeOK
  BY StorageAssumption DEF UploadInit, StorageInit, StorageTypeOK
<1>2. (CHOOSE r \in Requests : TRUE) \in Requests
  BY UploadAssumption
<1> QED
  BY <1>1, <1>2 DEF UploadInit, UploadTypeOK, UploadPc, Replies, Contents

(* Each helper of fileUtils.cpp keeps the cache well typed. *)
LEMMA OpenType ==
    ASSUME StorageTypeOK, NEW s \in Slots, NEW p \in Paths,
           OpenTrunc(s, p) \/ OpenAppend(s, p), UNCHANGED dirs
    PROVE  StorageTypeOK'
<1>1. <<>> \in Contents
  BY DEF Contents
<1> QED
  BY <1>1 DEF StorageTypeOK, OpenTrunc, OpenAppend

(* An open file is there: a descriptor whose inode was unlinked is none. *)
OpenFileExists == \A s \in Slots : fd[s] # NoFd => fs[fd[s]] # NoFile

LEMMA TypeNext == UploadTypeOK /\ OpenFileExists /\ [UploadNext]_uvars => UploadTypeOK'
<1> SUFFICES ASSUME UploadTypeOK, OpenFileExists, [UploadNext]_uvars
             PROVE  UploadTypeOK'
  OBVIOUS
<1> USE DEF UploadTypeOK
<1>1. ASSUME NEW u \in Uploaders, NEW r \in Requests, UploadBegin(u, r)
      PROVE  UploadTypeOK'
  <2>1. r.name \in Names /\ r.parts \in Seq(Part)
    BY UploadAssumption DEF UploadRequest
  <2>2. StorageTypeOK'
    BY <1>1, <2>1, StorageAssumption DEF UploadBegin, StorageTypeOK, MakeDir
  <2>3. CASE RefuseExisting(u, r)
    BY <1>1, <2>2, <2>3 DEF UploadBegin, RefuseExisting, Replies
  <2>4. CASE AcceptBody(u, r)
    BY <1>1, <2>1, <2>2, <2>4 DEF UploadBegin, AcceptBody, Replies, UploadPc, file_exists
  <2> QED BY <1>1, <2>3, <2>4 DEF UploadBegin
<1>2. ASSUME NEW u \in Uploaders, OpenPiece(u)
      PROVE  UploadTypeOK'
  <2>1. NameOf(u) \in Names /\ u \in Slots
    BY UploadAssumption DEF NameOf, UploadRequest
  <2>2. StorageTypeOK'
    BY <1>2, <2>1, OpenType, PathFacts DEF OpenPiece, OpenTarget
  <2>3. PICK k \in PieceLengths(u) :
          /\ \E d \in Written(u, SubSeq(Current(u).data, 1, k)) :
                upiece' = [upiece EXCEPT ![u] = d]
          /\ uparts' = [uparts EXCEPT ![u] = AfterPiece(u, k)]
    BY <1>2 DEF OpenPiece
  <2>4. /\ AfterPiece(u, k) \in Seq(Part)
        /\ SubSeq(Current(u).data, 1, k) \in Contents
    BY <1>2, AfterPieceType DEF OpenPiece, Receiving
  <2>5. \A d \in Written(u, SubSeq(Current(u).data, 1, k)) : d \in Contents
    BY <2>4, WrittenType
  <2>6. upiece' \in [Uploaders -> Contents]
    BY <2>3, <2>5
  <2> QED
    BY <1>2, <2>2, <2>3, <2>4, <2>6 DEF OpenPiece, UploadPc
<1>3. ASSUME NEW u \in Uploaders, AppendPiece(u) \/ OverwritePiece(u)
      PROVE  UploadTypeOK'
  <2>1. u \in Slots /\ upiece[u] \in Contents /\ <<>> \in Contents
    BY UploadAssumption DEF Contents
  <2>2. ASSUME fd[u] # NoFd
        PROVE  /\ fd[u] \in Paths /\ fs[fd[u]] \in Contents
               /\ fs[fd[u]] \o upiece[u] \in Contents
               /\ WriteAt(fs[fd[u]], 0, upiece[u]) \in Contents
    <3>1. fd[u] \in Paths /\ fs[fd[u]] \in Contents
      BY <2>1, <2>2 DEF OpenFileExists, StorageTypeOK
    <3>2. fs[fd[u]] \o upiece[u] \in Contents
      BY <3>1, <2>1 DEF Contents
    <3> QED BY <3>1, <3>2, <2>1, WriteAtType
  <2>3. fs' \in [Paths -> Contents \cup {NoFile}]
    BY <1>3, <2>2 DEF AppendPiece, OverwritePiece, WriteFd, StorageTypeOK
  <2>4. StorageTypeOK'
    BY <1>3, <2>1, <2>3
    DEF AppendPiece, OverwritePiece, ClosePiece, CloseFd, StorageTypeOK
  <2> QED
    BY ZenonT(40), <1>3, <2>1, <2>4 DEF AppendPiece, OverwritePiece, ClosePiece, UploadPc
<1>4. ASSUME NEW u \in Uploaders, SkipPart(u) \/ MissBoundary(u)
      PROVE  UploadTypeOK'
  <2>1. /\ uparts' \in [Uploaders -> Seq(Part)] /\ ulost' \in [Uploaders -> BOOLEAN]
        /\ UNCHANGED <<fs, fd, dirs, upc, ureq, upiece, uresp, begun, raced, ufresh>>
    <3>1. CASE SkipPart(u)
      BY <3>1 DEF SkipPart, Receiving
    <3>2. CASE MissBoundary(u)
      <4>1. PICK k \in 1 .. Len(uparts[u]) :
              uparts' = [uparts EXCEPT ![u] = SubSeq(@, k + 1, Len(@))]
        BY <3>2 DEF MissBoundary
      <4>2. SubSeq(uparts[u], k + 1, Len(uparts[u])) \in Seq(Part)
        OBVIOUS
      <4> QED BY <3>2, <4>1, <4>2 DEF MissBoundary
    <3> QED BY <1>4, <3>1, <3>2
  <2> QED BY <2>1 DEF StorageTypeOK
<1>5. ASSUME NEW u \in Uploaders, EndBody(u)
      PROVE  UploadTypeOK'
  BY <1>5 DEF EndBody, StorageTypeOK, UploadPc
<1>6. ASSUME NEW u \in Uploaders, CheckMd5(u)
      PROVE  UploadTypeOK'
  <2>1. /\ upc' \in [Uploaders -> UploadPc]
        /\ uresp' \in [Uploaders -> Replies]
    <3>1. CASE upc' = [upc EXCEPT ![u] = "rename"] /\ UNCHANGED uresp
      BY <3>1 DEF UploadPc
    <3>2. CASE /\ upc' = [upc EXCEPT ![u] = "idle"]
               /\ uresp' = [uresp EXCEPT ![u] = Reply(400, -5)]
      BY <3>2 DEF UploadPc, Replies
    <3> QED BY <1>6, <3>1, <3>2 DEF CheckMd5
  <2> QED
    BY <1>6, <2>1 DEF CheckMd5, StorageTypeOK
<1>7. ASSUME NEW u \in Uploaders, RenameAndReply(u)
      PROVE  UploadTypeOK'
  <2>1. NameOf(u) \in Names
    BY UploadAssumption DEF NameOf, UploadRequest
  <2>2. StorageTypeOK'
    BY <1>7, <2>1, PathFacts
    DEF RenameAndReply, file_rename, file_exists, Moved, StorageTypeOK
  <2> QED
    BY <1>7, <2>2 DEF RenameAndReply, UploadPc, Replies
<1>8. CASE Restart
  BY <1>8 DEF Restart, UploadReset, CloseAll, StorageTypeOK, UploadPc, Replies, Contents
<1>9. CASE UNCHANGED uvars
  BY <1>9 DEF uvars, StorageTypeOK
<1> QED
  BY <1>1, <1>2, <1>3, <1>4, <1>5, <1>6, <1>7, <1>8, <1>9
  DEF UploadNext, FileUploadCallback, TempFileUploadCallback, Handle
---------------------------------------------------------------------------
(* The inductive invariant *)

(* The conjuncts of UploadInv beyond types, preserved together. *)
UploadSafe ==
    /\ OverlapIsRaced /\ OpenFileOfOwnName /\ CheckedStaysTrue
    /\ RenameIsBacked /\ FileIntegrity /\ AckedUploadIsStored

LEMMA EmptyContent == <<>> \in Contents /\ <<>> # NoFile
<1>1. <<>> \in Contents
  BY DEF Contents
<1> QED BY <1>1, StorageAssumption

LEMMA ReplyFacts ==
    /\ Reply(200, 0) # Reply(400, -2) /\ Reply(200, 0) # Reply(400, -5)
    /\ Reply(200, 0) # Unanswered
BY DEF Reply, Unanswered

LEMMA NameFacts ==
    ASSUME UploadTypeOK, NEW u \in Uploaders
    PROVE  NameOf(u) \in Names /\ u \in Slots /\ Body[NameOf(u)] # NoFile
BY UploadAssumption, StorageAssumption DEF UploadTypeOK, NameOf, UploadRequest

LEMMA SafeInit == UploadInit => UploadSafe
BY PathFacts, ReplyFacts, UploadAssumption, StorageAssumption
DEF UploadInit, StorageInit, UploadSafe, OverlapIsRaced, OpenFileOfOwnName,
    CheckedStaysTrue, RenameIsBacked, FileIntegrity, AckedUploadIsStored,
    Active

(* A handler that starts: it is refused, or notices whom it races with. *)
LEMMA SafeBegin ==
    ASSUME UploadTypeOK, UploadSafe, NEW u \in Uploaders, NEW r \in Requests,
           UploadBegin(u, r)
    PROVE  UploadSafe'
<1> USE DEF UploadTypeOK, UploadSafe
<1>1. CASE RefuseExisting(u, r)
  BY <1>1, ReplyFacts
  DEF UploadBegin, RefuseExisting, OverlapIsRaced, OpenFileOfOwnName,
      CheckedStaysTrue, RenameIsBacked, FileIntegrity, AckedUploadIsStored,
      NameOf, Active, file_exists
<1>2. CASE AcceptBody(u, r)
  <2>1. /\ upc[u] = "idle" /\ upc' = [upc EXCEPT ![u] = "body"]
        /\ ureq' = [ureq EXCEPT ![u] = r] /\ fs[File(r.name)] = NoFile
        /\ raced' = IF \E v \in Uploaders : Active(v) /\ NameOf(v) = r.name
                    THEN raced \cup {r.name} ELSE raced
        /\ uresp' = [uresp EXCEPT ![u] = Unanswered]
        /\ UNCHANGED <<fs, fd>>
    BY <1>2 DEF UploadBegin, AcceptBody, file_exists
  <2>2. raced \subseteq raced' /\ raced' \subseteq raced \cup {r.name}
    BY <2>1
  <2>3. \A v \in Uploaders \ {u} : upc'[v] = upc[v] /\ ureq'[v] = ureq[v] /\ uresp'[v] = uresp[v]
    BY <2>1
  <2>4. upc'[u] = "body" /\ ureq'[u] = r /\ uresp'[u] = Unanswered
    BY <2>1
  <2>5. OverlapIsRaced'
    BY <2>1, <2>2, <2>3, <2>4 DEF OverlapIsRaced, Active, NameOf
  <2>6. OpenFileOfOwnName'
    BY <2>1, <2>2, <2>3, <2>4 DEF OpenFileOfOwnName, NameOf
  <2>7. CheckedStaysTrue'
    BY <2>1, <2>2, <2>3, <2>4 DEF CheckedStaysTrue, Active, NameOf
  <2>8. RenameIsBacked' /\ FileIntegrity' /\ AckedUploadIsStored'
    BY <2>1, <2>2, <2>3, <2>4, ReplyFacts
    DEF RenameIsBacked, FileIntegrity, AckedUploadIsStored, NameOf, file_exists
  <2> QED BY <2>5, <2>6, <2>7, <2>8
<1> QED BY <1>1, <1>2 DEF UploadBegin

(* A helper opens .tmp or .metadata of its own name. *)
LEMMA SafeOpen ==
    ASSUME UploadTypeOK, UploadSafe, NEW u \in Uploaders, OpenPiece(u)
    PROVE  UploadSafe'
<1> USE DEF UploadTypeOK, UploadSafe
<1> DEFINE n == NameOf(u)
<1>1. n \in Names /\ u \in Slots
  BY NameFacts
<1>2. PICK p \in {Tmp(n), Meta(n)} : OpenTrunc(u, p) \/ OpenAppend(u, p)
  BY DEF OpenPiece, OpenTarget
<1>3. /\ upc[u] = "body"
      /\ \/ upc' = [upc EXCEPT ![u] = "append"]
         \/ upc' = [upc EXCEPT ![u] = "overwrite"]
      /\ UNCHANGED <<ureq, uresp, raced>>
  BY DEF OpenPiece, Receiving
<1>4. /\ p \in Paths /\ fd' = [fd EXCEPT ![u] = p]
      /\ fs'[p] # NoFile /\ \A q \in Paths \ {p} : fs'[q] = fs[q]
  BY <1>1, <1>2, EmptyContent, PathFacts DEF OpenTrunc, OpenAppend, StorageTypeOK
<1>5. \A v \in Uploaders :
        /\ NameOf(v) \in Names /\ NameOf(v)' = NameOf(v)
        /\ Active(v)' <=> Active(v)
        /\ v # u => upc'[v] = upc[v]
  BY <1>3, NameFacts DEF Active, NameOf
<1>6. \A m \in Names : /\ fs'[File(m)] = fs[File(m)]
                       /\ m # n => fs'[Tmp(m)] = fs[Tmp(m)]
                       /\ fs'[Tmp(m)] = NoFile => fs[Tmp(m)] = NoFile
  BY <1>1, <1>4, PathFacts
<1>7. OverlapIsRaced'
  BY <1>3, <1>5 DEF OverlapIsRaced
<1>8. OpenFileOfOwnName'
  <2> SUFFICES ASSUME NEW s \in Slots, fd'[s] # NoFd
               PROVE  /\ s \in Uploaders /\ upc'[s] \in {"append", "overwrite"}
                      /\ fd'[s] \in {Tmp(NameOf(s)), Meta(NameOf(s)), File(NameOf(s))}
                      /\ fd'[s] = File(NameOf(s)) => NameOf(s) \in raced
                      /\ fs'[fd'[s]] # NoFile
    BY <1>3, <1>5 DEF OpenFileOfOwnName
  <2>1. CASE s = u
    BY <1>1, <1>3, <1>4, <2>1, PathFacts DEF StorageTypeOK
  <2>2. CASE s # u
    BY <1>3, <1>4, <1>5, <2>2 DEF OpenFileOfOwnName, StorageTypeOK
  <2> QED BY <2>1, <2>2
<1>9. CheckedStaysTrue'
  <2> SUFFICES ASSUME NEW v \in Uploaders, Active(v)', NameOf(v) \notin raced
               PROVE  /\ fs'[File(NameOf(v))] = NoFile
                      /\ upc'[v] = "rename" => fs'[Tmp(NameOf(v))] = Body[NameOf(v)]
    BY <1>3, <1>5 DEF CheckedStaysTrue
  <2>1. CASE v = u
    BY <1>3, <1>5, <1>6, <2>1 DEF CheckedStaysTrue
  <2>2. CASE v # u
    <3>1. NameOf(v) # n
      BY <1>3, <1>5, <2>2 DEF OverlapIsRaced, Active
    <3> QED BY <1>5, <1>6, <2>2, <3>1 DEF CheckedStaysTrue
  <2> QED BY <2>1, <2>2
<1>10. RenameIsBacked'
  <2>1. upc'[u] # "rename"
    BY <1>3
  <2> QED BY ZenonT(40), <1>5, <1>6, <2>1 DEF RenameIsBacked, file_exists
<1>11. FileIntegrity'
  BY <1>3, <1>6 DEF FileIntegrity
<1>12. AckedUploadIsStored'
  <2> SUFFICES ASSUME NEW v \in Uploaders, uresp[v] = Reply(200, 0)
               PROVE  fs'[File(NameOf(v))] # NoFile
    BY <1>3, <1>5 DEF AckedUploadIsStored, file_exists
  <2> QED BY ZenonT(40), <1>5, <1>6 DEF AckedUploadIsStored, file_exists
<1> QED BY <1>7, <1>8, <1>9, <1>10, <1>11, <1>12

(* A helper writes the file it has open, and closes it. *)
LEMMA SafeWrite ==
    ASSUME UploadTypeOK, UploadSafe, NEW u \in Uploaders,
           AppendPiece(u) \/ OverwritePiece(u)
    PROVE  UploadSafe'
<1> USE DEF UploadTypeOK, UploadSafe
<1> DEFINE n == NameOf(u)
<1>1. n \in Names /\ u \in Slots /\ upiece[u] \in Contents
  BY NameFacts
<1>2. /\ upc[u] \in {"append", "overwrite"}
      /\ upc' = [upc EXCEPT ![u] = "body"]
      /\ fd' = [fd EXCEPT ![u] = NoFd]
      /\ UNCHANGED <<ureq, uresp, raced>>
  BY DEF AppendPiece, OverwritePiece, ClosePiece, CloseFd
<1>3. CASE fd[u] = NoFd
  <2>1. fs' = fs
    BY <1>3 DEF AppendPiece, OverwritePiece, WriteFd
  <2>2. \A v \in Uploaders :
          /\ NameOf(v)' = NameOf(v) /\ (Active(v)' <=> Active(v))
          /\ v # u => upc'[v] = upc[v]
    BY <1>2 DEF Active, NameOf
  <2>3. upc'[u] = "body"
    BY <1>2
  <2>4. OverlapIsRaced' /\ CheckedStaysTrue' /\ FileIntegrity'
    BY <1>2, <2>1, <2>2, <2>3 DEF OverlapIsRaced, CheckedStaysTrue, FileIntegrity
  <2>5. RenameIsBacked' /\ AckedUploadIsStored'
    BY <1>2, <2>1, <2>2, <2>3 DEF RenameIsBacked, AckedUploadIsStored, file_exists
  <2>6. OpenFileOfOwnName'
    BY <1>1, <1>2, <1>3, <2>1, <2>2 DEF OpenFileOfOwnName, StorageTypeOK
  <2> QED BY <2>4, <2>5, <2>6
<1>4. CASE fd[u] # NoFd
  <2> DEFINE p == fd[u]
  <2>1. /\ p \in Paths /\ p \in {Tmp(n), Meta(n), File(n)}
        /\ p = File(n) => n \in raced
        /\ fs[p] \in Contents
    BY <1>1, <1>4 DEF OpenFileOfOwnName, StorageTypeOK
  <2>2. fs[p] \o upiece[u] \in Contents /\ WriteAt(fs[p], 0, upiece[u]) \in Contents
    <3>1. fs[p] \o upiece[u] \in Contents
      BY <1>1, <2>1 DEF Contents
    <3> QED BY <1>1, <2>1, <3>1, WriteAtType
  <2>3. fs'[p] \in Contents /\ \A q \in Paths \ {p} : fs'[q] = fs[q]
    BY <1>4, <2>1, <2>2 DEF AppendPiece, OverwritePiece, WriteFd, StorageTypeOK
  <2>4. fs'[p] # NoFile
    BY <2>3, StorageAssumption
  <2>5. \A v \in Uploaders :
          /\ NameOf(v) \in Names /\ NameOf(v)' = NameOf(v)
          /\ Active(v)' <=> Active(v)
          /\ v # u => upc'[v] = upc[v]
    BY <1>2, NameFacts DEF Active, NameOf
  <2>6. \A m \in Names :
          /\ m \notin raced => fs'[File(m)] = fs[File(m)]
          /\ m # n => fs'[Tmp(m)] = fs[Tmp(m)]
          /\ fs'[Tmp(m)] = NoFile => fs[Tmp(m)] = NoFile
          /\ fs'[File(m)] = NoFile => fs[File(m)] = NoFile
    BY <1>1, <2>1, <2>3, <2>4, PathFacts
  <2>7. upc'[u] = "body"
    BY <1>2
  <2>8. OverlapIsRaced'
    BY <1>2, <2>5 DEF OverlapIsRaced
  <2>9. OpenFileOfOwnName'
    <3> SUFFICES ASSUME NEW s \in Slots, fd'[s] # NoFd
                 PROVE  /\ s \in Uploaders /\ upc'[s] \in {"append", "overwrite"}
                        /\ fd'[s] \in {Tmp(NameOf(s)), Meta(NameOf(s)), File(NameOf(s))}
                        /\ fd'[s] = File(NameOf(s)) => NameOf(s) \in raced
                        /\ fs'[fd'[s]] # NoFile
      BY <1>2, <2>5 DEF OpenFileOfOwnName
    <3>1. s # u /\ fd'[s] = fd[s]
      BY <1>1, <1>2 DEF StorageTypeOK
    <3> QED BY <2>3, <2>4, <2>5, <3>1 DEF OpenFileOfOwnName, StorageTypeOK
  <2>10. CheckedStaysTrue'
    <3> SUFFICES ASSUME NEW v \in Uploaders, Active(v)', NameOf(v) \notin raced
                 PROVE  /\ fs'[File(NameOf(v))] = NoFile
                        /\ upc'[v] = "rename" => fs'[Tmp(NameOf(v))] = Body[NameOf(v)]
      BY <1>2, <2>5 DEF CheckedStaysTrue
    <3>1. CASE v = u
      BY <2>5, <2>6, <2>7, <3>1 DEF CheckedStaysTrue
    <3>2. CASE v # u
      <4>1. NameOf(v) # n
        BY <1>2, <2>5, <3>2 DEF OverlapIsRaced, Active
      <4>2. /\ fs[File(NameOf(v))] = NoFile
            /\ upc[v] = "rename" => fs[Tmp(NameOf(v))] = Body[NameOf(v)]
        BY <2>5 DEF CheckedStaysTrue
      <4> QED BY <2>5, <2>6, <3>2, <4>1, <4>2
    <3> QED BY <3>1, <3>2
  <2>11. RenameIsBacked'
    <3> SUFFICES ASSUME NEW v \in Uploaders, upc'[v] = "rename"
                 PROVE  fs'[Tmp(NameOf(v))] # NoFile \/ fs'[File(NameOf(v))] # NoFile
      BY <2>5 DEF RenameIsBacked, file_exists
    <3> QED BY <2>5, <2>6, <2>7 DEF RenameIsBacked, file_exists
  <2>12. FileIntegrity'
    BY <1>2, <2>6 DEF FileIntegrity
  <2>13. AckedUploadIsStored'
    <3> SUFFICES ASSUME NEW v \in Uploaders, uresp[v] = Reply(200, 0)
                 PROVE  fs'[File(NameOf(v))] # NoFile
      BY <1>2, <2>5 DEF AckedUploadIsStored, file_exists
    <3> QED BY <2>5, <2>6 DEF AckedUploadIsStored, file_exists
  <2> QED BY <2>8, <2>9, <2>10, <2>11, <2>12, <2>13
<1> QED BY <1>3, <1>4

(* Steps that touch no file: parts passed over or lost, the end of the      *)
(* body, and the md5 check.                                                 *)
LEMMA SafeNoFile ==
    ASSUME UploadTypeOK, UploadSafe, NEW u \in Uploaders,
           SkipPart(u) \/ MissBoundary(u) \/ EndBody(u) \/ CheckMd5(u)
    PROVE  UploadSafe'
<1> USE DEF UploadTypeOK, UploadSafe
<1>1. /\ UNCHANGED <<fs, fd, ureq, raced>>
      /\ Active(u) /\ upc[u] \in {"body", "md5"}
      /\ \A v \in Uploaders \ {u} : upc'[v] = upc[v] /\ uresp'[v] = uresp[v]
      /\ uresp'[u] = uresp[u] \/ uresp'[u] = Reply(400, -5)
      /\ upc'[u] = "rename" => fs[Tmp(NameOf(u))] = Body[NameOf(u)]
  <2>1. CASE SkipPart(u) \/ MissBoundary(u)
    BY <2>1 DEF SkipPart, MissBoundary, Receiving, Active
  <2>2. CASE EndBody(u)
    BY <2>2 DEF EndBody, Active
  <2>3. CASE CheckMd5(u)
    <3>1. CASE /\ md5_is(Tmp(NameOf(u)), NameOf(u))
               /\ upc' = [upc EXCEPT ![u] = "rename"] /\ UNCHANGED uresp
      BY <2>3, <3>1 DEF CheckMd5, md5_is, Active
    <3>2. CASE /\ upc' = [upc EXCEPT ![u] = "idle"]
               /\ uresp' = [uresp EXCEPT ![u] = Reply(400, -5)]
      BY <2>3, <3>2 DEF CheckMd5, Active
    <3> QED BY <2>3, <3>1, <3>2 DEF CheckMd5
  <2> QED BY <2>1, <2>2, <2>3
<1>2. \A v \in Uploaders :
        /\ NameOf(v) \in Names /\ NameOf(v)' = NameOf(v)
        /\ Active(v)' => Active(v)
        /\ upc'[v] = "rename" => upc[v] = "rename" \/ v = u
        /\ Body[NameOf(v)] # NoFile
  BY <1>1, NameFacts DEF Active, NameOf
<1>3. OverlapIsRaced' /\ FileIntegrity'
  BY <1>1, <1>2 DEF OverlapIsRaced, FileIntegrity
<1>4. OpenFileOfOwnName'
  <2> SUFFICES ASSUME NEW s \in Slots, fd[s] # NoFd
               PROVE  /\ s \in Uploaders /\ upc'[s] \in {"append", "overwrite"}
                      /\ fd[s] \in {Tmp(NameOf(s)), Meta(NameOf(s)), File(NameOf(s))}
                      /\ fd[s] = File(NameOf(s)) => NameOf(s) \in raced
                      /\ fs[fd[s]] # NoFile
    BY <1>1, <1>2 DEF OpenFileOfOwnName
  <2>1. s \in Uploaders /\ s # u
    BY ZenonT(40), <1>1 DEF OpenFileOfOwnName
  <2> QED BY <1>1, <2>1 DEF OpenFileOfOwnName
<1>5. CheckedStaysTrue'
  <2> SUFFICES ASSUME NEW v \in Uploaders, Active(v)', NameOf(v) \notin raced
               PROVE  /\ fs[File(NameOf(v))] = NoFile
                      /\ upc'[v] = "rename" => fs[Tmp(NameOf(v))] = Body[NameOf(v)]
    BY <1>1, <1>2 DEF CheckedStaysTrue
  <2> QED BY <1>1, <1>2 DEF CheckedStaysTrue
<1>6. RenameIsBacked'
  <2> SUFFICES ASSUME NEW v \in Uploaders, upc'[v] = "rename"
               PROVE  fs[Tmp(NameOf(v))] # NoFile \/ fs[File(NameOf(v))] # NoFile
    BY <1>1, <1>2 DEF RenameIsBacked, file_exists
  <2> QED BY <1>1, <1>2 DEF RenameIsBacked, file_exists
<1>7. AckedUploadIsStored'
  <2> SUFFICES ASSUME NEW v \in Uploaders, uresp'[v] = Reply(200, 0)
               PROVE  fs[File(NameOf(v))] # NoFile
    BY <1>1, <1>2 DEF AckedUploadIsStored, file_exists
  <2>1. uresp[v] = Reply(200, 0)
    BY <1>1, ReplyFacts
  <2> QED BY <2>1 DEF AckedUploadIsStored, file_exists
<1> QED BY <1>3, <1>4, <1>5, <1>6, <1>7

(* The commit: what was checked is what becomes the data file. *)
LEMMA SafeRename ==
    ASSUME UploadTypeOK, UploadSafe, NEW u \in Uploaders, RenameAndReply(u)
    PROVE  UploadSafe'
<1> USE DEF UploadTypeOK, UploadSafe
<1> DEFINE n == NameOf(u)
<1>1. n \in Names /\ u \in Slots /\ Body[n] # NoFile
  BY NameFacts
<1>2. /\ upc[u] = "rename" /\ upc' = [upc EXCEPT ![u] = "idle"]
      /\ uresp' = [uresp EXCEPT ![u] = Reply(200, 0)]
      /\ UNCHANGED <<ureq, raced>>
  BY DEF RenameAndReply
<1>3. \A v \in Uploaders :
        /\ NameOf(v) \in Names /\ NameOf(v)' = NameOf(v)
        /\ Active(v)' => Active(v) /\ v # u /\ upc'[v] = upc[v]
        /\ v # u => uresp'[v] = uresp[v] /\ upc'[v] = upc[v]
  BY <1>2, NameFacts DEF Active, NameOf
<1>4. /\ fs'[File(n)] = fs[Tmp(n)] \/ (fs[Tmp(n)] = NoFile /\ fs'[File(n)] = fs[File(n)])
      /\ fs'[File(n)] # NoFile
      /\ \A m \in Names \ {n} : fs'[File(m)] = fs[File(m)] /\ fs'[Tmp(m)] = fs[Tmp(m)]
      /\ \A q \in Paths \ {File(n), Tmp(n)} : fs'[q] = fs[q]
      /\ fs[Tmp(n)] = NoFile => fs' = fs /\ fd' = fd
      /\ fs[Tmp(n)] # NoFile => fd' = Moved(Tmp(n), File(n))
  <2>1. fs[Tmp(n)] # NoFile \/ fs[File(n)] # NoFile
    BY <1>2 DEF RenameIsBacked, file_exists
  <2> QED
    BY <1>1, <2>1, PathFacts DEF RenameAndReply, file_rename, file_exists, StorageTypeOK
<1>5. n \notin raced => fs'[File(n)] = Body[n]
  BY <1>1, <1>2, <1>4 DEF CheckedStaysTrue, Active
<1>6. \A v \in Uploaders : Active(v)' /\ NameOf(v) = n => n \in raced
  BY <1>2, <1>3 DEF OverlapIsRaced, Active
<1>7. OverlapIsRaced'
  BY <1>2, <1>3 DEF OverlapIsRaced
<1>8. OpenFileOfOwnName'
  <2> SUFFICES ASSUME NEW s \in Slots, fd'[s] # NoFd
               PROVE  /\ s \in Uploaders /\ upc'[s] \in {"append", "overwrite"}
                      /\ fd'[s] \in {Tmp(NameOf(s)), Meta(NameOf(s)), File(NameOf(s))}
                      /\ fd'[s] = File(NameOf(s)) => NameOf(s) \in raced
                      /\ fs'[fd'[s]] # NoFile
    BY <1>2, <1>3 DEF OpenFileOfOwnName
  <2>1. fd[s] # NoFd
    BY <1>1, <1>4, PathFacts, StorageAssumption DEF Moved
  <2>2. /\ s \in Uploaders /\ upc[s] \in {"append", "overwrite"} /\ s # u
        /\ fd[s] \in {Tmp(NameOf(s)), Meta(NameOf(s)), File(NameOf(s))}
        /\ fd[s] = File(NameOf(s)) => NameOf(s) \in raced
        /\ fs[fd[s]] # NoFile
        /\ fd[s] \in Paths
    BY <1>2, <2>1 DEF OpenFileOfOwnName, StorageTypeOK
  <2>3. upc'[s] = upc[s] /\ (NameOf(s) = n => n \in raced)
    BY <1>2, <1>3, <2>2 DEF OverlapIsRaced, Active
  <2>4. CASE fs[Tmp(n)] = NoFile
    BY <1>4, <2>2, <2>3, <2>4
  <2>5. CASE fs[Tmp(n)] # NoFile
    <3>1. CASE fd[s] = Tmp(n)
      <4>1. fd'[s] = File(n) /\ NameOf(s) = n
        BY <1>1, <1>3, <1>4, <2>2, <2>5, <3>1, PathFacts DEF Moved
      <4> QED BY <1>4, <2>2, <2>3, <4>1
    <3>2. CASE fd[s] # Tmp(n)
      <4>1. fd'[s] = fd[s] /\ fd[s] # File(n)
        BY <1>4, <2>5, <3>2 DEF Moved
      <4> QED BY <1>4, <2>2, <2>3, <3>2, <4>1
    <3> QED BY <3>1, <3>2
  <2> QED BY <2>4, <2>5
<1>9. CheckedStaysTrue'
  <2> SUFFICES ASSUME NEW v \in Uploaders, Active(v)', NameOf(v) \notin raced
               PROVE  /\ fs'[File(NameOf(v))] = NoFile
                      /\ upc'[v] = "rename" => fs'[Tmp(NameOf(v))] = Body[NameOf(v)]
    BY <1>2, <1>3 DEF CheckedStaysTrue
  <2>1. NameOf(v) # n
    BY <1>6
  <2>2. /\ fs[File(NameOf(v))] = NoFile
        /\ upc[v] = "rename" => fs[Tmp(NameOf(v))] = Body[NameOf(v)]
    BY <1>3 DEF CheckedStaysTrue
  <2> QED BY <1>3, <1>4, <2>1, <2>2
<1>10. RenameIsBacked'
  <2> SUFFICES ASSUME NEW v \in Uploaders, upc'[v] = "rename"
               PROVE  fs'[Tmp(NameOf(v))] # NoFile \/ fs'[File(NameOf(v))] # NoFile
    BY <1>3 DEF RenameIsBacked, file_exists
  <2>1. v # u /\ upc[v] = "rename"
    BY <1>2, <1>3
  <2> QED BY <1>3, <1>4, <2>1 DEF RenameIsBacked, file_exists
<1>11. FileIntegrity'
  BY <1>2, <1>4, <1>5 DEF FileIntegrity
<1>12. AckedUploadIsStored'
  <2> SUFFICES ASSUME NEW v \in Uploaders, uresp'[v] = Reply(200, 0)
               PROVE  fs'[File(NameOf(v))] # NoFile
    BY <1>3 DEF AckedUploadIsStored, file_exists
  <2>1. CASE NameOf(v) = n
    BY <1>4, <2>1
  <2>2. CASE NameOf(v) # n
    BY <1>3, <1>4, <2>2 DEF AckedUploadIsStored, file_exists
  <2> QED BY <2>1, <2>2
<1> QED BY <1>7, <1>8, <1>9, <1>10, <1>11, <1>12

(* A crash closes every file and forgets every handler, no more. *)
LEMMA SafeRestart ==
    ASSUME UploadTypeOK, UploadSafe, Restart
    PROVE  UploadSafe'
BY ReplyFacts
DEF UploadTypeOK, UploadSafe, Restart, UploadReset, CloseAll, OverlapIsRaced, OpenFileOfOwnName,
    CheckedStaysTrue, RenameIsBacked, FileIntegrity, AckedUploadIsStored, Active

LEMMA InvNext == UploadInv /\ [UploadNext]_uvars => UploadInv'
<1> SUFFICES ASSUME UploadInv, [UploadNext]_uvars PROVE UploadInv'
  OBVIOUS
<1>1. UploadTypeOK /\ UploadSafe
  BY DEF UploadInv, UploadSafe
<1>2. UploadTypeOK'
  BY <1>1, TypeNext DEF UploadSafe, OpenFileOfOwnName, OpenFileExists
<1>3. ASSUME NEW u \in Uploaders, FileUploadCallback(u) \/ TempFileUploadCallback(u)
      PROVE  UploadSafe'
  BY <1>1, <1>3, SafeBegin DEF FileUploadCallback, TempFileUploadCallback
<1>4. ASSUME NEW u \in Uploaders, Handle(u)
      PROVE  UploadSafe'
  BY <1>1, <1>4, SafeOpen, SafeWrite, SafeNoFile, SafeRename DEF Handle
<1>5. ASSUME UNCHANGED uvars PROVE UploadSafe'
  BY <1>1, <1>5
  DEF uvars, UploadSafe, OverlapIsRaced, OpenFileOfOwnName, CheckedStaysTrue,
      RenameIsBacked, FileIntegrity, AckedUploadIsStored, Active, NameOf, file_exists
<1>6. ASSUME Restart PROVE UploadSafe'
  BY <1>1, <1>6, SafeRestart
<1>7. UploadSafe'
  BY <1>3, <1>4, <1>5, <1>6 DEF UploadNext
<1> QED BY <1>2, <1>7 DEF UploadInv, UploadSafe

(* The inductive invariant holds of every execution of the upload handlers. *)
THEOREM UploadInvariant == UploadSpec => []UploadInv
<1>1. UploadInit => UploadInv
  BY TypeInit, SafeInit DEF UploadInv, UploadSafe
<1> QED BY <1>1, InvNext, PTL DEF UploadSpec

(* Types: in particular no helper ever writes anything but a content. *)
THEOREM UploadTypeCorrect == UploadSpec => []UploadTypeOK
<1>1. UploadInv => UploadTypeOK
  BY DEF UploadInv
<1> QED BY <1>1, UploadInvariant, PTL

(* The data file of a name never uploaded twice at once holds the content   *)
(* its md5 name promises, at every moment of every execution, crashes and   *)
(* lost connections included.                                               *)
THEOREM UploadKeepsIntegrity == UploadSpec => []FileIntegrity
<1>1. UploadInv => FileIntegrity
  BY DEF UploadInv
<1> QED BY <1>1, UploadInvariant, PTL

(* A 200 is never a lie about existence, not even under a race. *)
THEOREM UploadAckIsStored == UploadSpec => []AckedUploadIsStored
<1>1. UploadInv => AckedUploadIsStored
  BY DEF UploadInv
<1> QED BY <1>1, UploadInvariant, PTL

---------------------------------------------------------------------------
(* Refinement *)

(* Steps that leave the data files of the names still promised alone. *)
LEMMA StoreStutters ==
    ASSUME raced' = raced, \A m \in Names \ raced : fs'[File(m)] = fs[File(m)]
    PROVE  UNCHANGED <<StoreView, raced>>
BY DEF StoreView

(* The rename of a handler alone with its name puts what it checked where   *)
(* nothing was.                                                             *)
LEMMA RenameCommits ==
    ASSUME UploadInv, NEW u \in Uploaders, RenameAndReply(u), NameOf(u) \notin raced
    PROVE  fs[File(NameOf(u))] = NoFile /\ fs'[File(NameOf(u))] = Body[NameOf(u)]
<1> USE DEF UploadInv, UploadTypeOK
<1> DEFINE n == NameOf(u)
<1>1. n \in Names /\ Body[n] # NoFile /\ upc[u] = "rename"
  BY NameFacts DEF RenameAndReply
<1>2. fs[File(n)] = NoFile /\ fs[Tmp(n)] = Body[n]
  BY <1>1 DEF CheckedStaysTrue, Active
<1>3. fs'[File(n)] = Body[n]
  BY <1>1, <1>2, PathFacts DEF RenameAndReply, file_rename, file_exists, StorageTypeOK
<1> QED BY <1>2, <1>3

LEMMA StoreStep ==
    UploadInv /\ [UploadNext]_uvars => [Store!Next]_<<StoreView, raced>>
<1> SUFFICES ASSUME UploadInv, [UploadNext]_uvars
             PROVE  Store!Next \/ UNCHANGED <<StoreView, raced>>
  OBVIOUS
<1> USE DEF UploadInv, UploadTypeOK
<1>1. ASSUME NEW u \in Uploaders, NEW r \in Requests, UploadBegin(u, r)
      PROVE  Store!Next \/ UNCHANGED <<StoreView, raced>>
  <2>1. r.name \in Names /\ fs' = fs
    BY <1>1, UploadAssumption DEF UploadBegin, UploadRequest
  <2>2. CASE raced' = raced
    BY <2>1, <2>2, StoreStutters
  <2>3. CASE raced' # raced
    <3>0. raced' = raced \cup {r.name}
      BY <1>1, <2>3 DEF UploadBegin, RefuseExisting, AcceptBody
    <3>1. raced' = raced \cup {r.name} /\ r.name \notin raced
      BY <2>3, <3>0, Zenon
    <3>2. StoreView' = [StoreView EXCEPT ![r.name] = NoFile]
      BY <2>1, <3>1 DEF StoreView
    <3> QED BY <2>1, <3>1, <3>2 DEF Store!Next, Store!Void
  <2> QED BY <2>2, <2>3
<1>2. ASSUME NEW u \in Uploaders, OpenPiece(u)
      PROVE  UNCHANGED <<StoreView, raced>>
  <2>1. NameOf(u) \in Names
    BY NameFacts
  <2>2. \A m \in Names : fs'[File(m)] = fs[File(m)]
    BY <1>2, <2>1, PathFacts
    DEF OpenPiece, OpenTarget, OpenTrunc, OpenAppend, StorageTypeOK
  <2> QED BY <1>2, <2>2, StoreStutters DEF OpenPiece
<1>3. ASSUME NEW u \in Uploaders, AppendPiece(u) \/ OverwritePiece(u)
      PROVE  UNCHANGED <<StoreView, raced>>
  <2>1. raced' = raced /\ NameOf(u) \in Names /\ u \in Slots
    BY <1>3, NameFacts DEF AppendPiece, OverwritePiece, ClosePiece
  <2>2. CASE fd[u] = NoFd
    <3>1. fs' = fs
      BY <1>3, <2>2 DEF AppendPiece, OverwritePiece, WriteFd
    <3> QED BY <2>1, <3>1, StoreStutters
  <2>3. CASE fd[u] # NoFd
    <3>1. /\ fd[u] \in {Tmp(NameOf(u)), Meta(NameOf(u)), File(NameOf(u))}
          /\ fd[u] = File(NameOf(u)) => NameOf(u) \in raced
      BY <2>1, <2>3 DEF OpenFileOfOwnName
    <3>2. \A q \in Paths \ {fd[u]} : fs'[q] = fs[q]
      BY <1>3, <2>3 DEF AppendPiece, OverwritePiece, WriteFd, StorageTypeOK
    <3>3. \A m \in Names \ raced : fs'[File(m)] = fs[File(m)]
      BY <2>1, <3>1, <3>2, PathFacts
    <3> QED BY <2>1, <3>3, StoreStutters
  <2> QED BY <2>2, <2>3
<1>4. ASSUME NEW u \in Uploaders,
             SkipPart(u) \/ MissBoundary(u) \/ EndBody(u) \/ CheckMd5(u)
      PROVE  UNCHANGED <<StoreView, raced>>
  BY <1>4, StoreStutters DEF SkipPart, MissBoundary, EndBody, CheckMd5
<1>5. ASSUME NEW u \in Uploaders, RenameAndReply(u)
      PROVE  Store!Next \/ UNCHANGED <<StoreView, raced>>
  <2> DEFINE n == NameOf(u)
  <2>1. n \in Names /\ Body[n] # NoFile /\ raced' = raced /\ upc[u] = "rename"
    BY <1>5, NameFacts DEF RenameAndReply
  <2>2. \A m \in Names \ {n} : fs'[File(m)] = fs[File(m)]
    BY <1>5, <2>1, PathFacts
    DEF RenameAndReply, file_rename, file_exists, StorageTypeOK
  <2>3. CASE n \in raced
    BY <2>1, <2>2, <2>3, StoreStutters
  <2>4. CASE n \notin raced
    <3>1. fs[File(n)] = NoFile /\ fs'[File(n)] = Body[n]
      BY <1>5, <2>4, RenameCommits
    <3>2. StoreView[n] = NoFile /\ StoreView' = [StoreView EXCEPT ![n] = Body[n]]
      BY <2>1, <2>2, <2>4, <3>1 DEF StoreView
    <3> QED BY <2>1, <2>4, <3>2 DEF Store!Next, Store!Put
  <2> QED BY <2>3, <2>4
<1>6. ASSUME Restart \/ UNCHANGED uvars
      PROVE  UNCHANGED <<StoreView, raced>>
  BY <1>6, StoreStutters DEF Restart, UploadReset, uvars
<1> QED
  BY <1>1, <1>2, <1>3, <1>4, <1>5, <1>6
  DEF UploadNext, FileUploadCallback, TempFileUploadCallback, Handle

(* The handlers implement the write-once store: the data file of a name     *)
(* appears in one step, with the right content, and never changes, as long  *)
(* as the name's uploads do not overlap.                                    *)
THEOREM UploadImplementsStore == UploadSpec => ImplementsStore
<1>1. UploadInit => Store!Init
  BY PathFacts DEF UploadInit, StorageInit, StoreView, Store!Init
<1> QED
  BY <1>1, StoreStep, UploadInvariant, PTL DEF UploadSpec, ImplementsStore, Store!Spec
---------------------------------------------------------------------------
(* Each 200 and its commit *)

LEMMA AckStep ==
    ASSUME UploadInv, [UploadNext]_uvars, NEW u \in Uploaders,
           uresp[u] # Reply(200, 0), uresp'[u] = Reply(200, 0), NameOf(u) \notin raced
    PROVE  fs[File(NameOf(u))] = NoFile /\ fs'[File(NameOf(u))] = Body[NameOf(u)]
<1> USE DEF UploadInv, UploadTypeOK
<1>1. ASSUME NEW v \in Uploaders, NEW r \in Requests, UploadBegin(v, r)
      PROVE  FALSE
  BY <1>1, ReplyFacts DEF UploadBegin, RefuseExisting, AcceptBody
<1>2. ASSUME NEW v \in Uploaders,
             \/ MissBoundary(v) \/ OpenPiece(v) \/ AppendPiece(v) \/ OverwritePiece(v)
             \/ SkipPart(v) \/ EndBody(v)
      PROVE  FALSE
  BY <1>2 DEF MissBoundary, OpenPiece, AppendPiece, OverwritePiece, ClosePiece, SkipPart, EndBody
<1>3. ASSUME NEW v \in Uploaders, CheckMd5(v)
      PROVE  FALSE
  BY <1>3, ReplyFacts DEF CheckMd5
<1>4. ASSUME NEW v \in Uploaders, RenameAndReply(v)
      PROVE  fs[File(NameOf(u))] = NoFile /\ fs'[File(NameOf(u))] = Body[NameOf(u)]
  <2>1. v = u
    BY <1>4 DEF RenameAndReply
  <2> QED BY <1>4, <2>1, RenameCommits
<1>5. ASSUME Restart \/ UNCHANGED uvars PROVE FALSE
  BY <1>5, ReplyFacts DEF Restart, UploadReset, uvars
<1> QED
  BY <1>1, <1>2, <1>3, <1>4, <1>5
  DEF UploadNext, FileUploadCallback, TempFileUploadCallback, Handle

(* Each 200 given to an upload alone with its name (the answer at the end   *)
(* of FileUploadCallback, which ignores the result of the rename) is given  *)
(* in the step that commits its own content to a name without a data file.  *)
THEOREM UploadAckCommits == UploadSpec => AckCommits
<1>1. UploadInv /\ [UploadNext]_uvars =>
        [\A u \in Uploaders :
           uresp[u] # Reply(200, 0) /\ uresp'[u] = Reply(200, 0) /\ NameOf(u) \notin raced
              => fs[File(NameOf(u))] = NoFile /\ fs'[File(NameOf(u))] = Body[NameOf(u)]]_uvars
  BY AckStep
<1> QED BY <1>1, UploadInvariant, PTL DEF UploadSpec, AckCommits
===========================================================================
